---- MODULE Spec2Model ----
(***************************************************************************)
(* Lifecycle of the Database and Connection handle wrappers of the ADBC    *)
(* NIF (c_src/adbc_nif.cpp): module load, new / set_option / init /        *)
(* release for both handle kinds, the error translator, and the host's     *)
(* collection of wrappers (reference drop and resource destructor).        *)
(*                                                                         *)
(* Every NIF runs to completion on the scheduler thread that dispatched    *)
(* it, so one call is one action.  The statements a call executes are      *)
(* recorded, in program order, in last.ev.  Calls on different scheduler   *)
(* threads are taken apart statement by statement in SpecRace.             *)
(*                                                                         *)
(* NifRes<T> (adbc_nif_resource.hpp) is not part of the sources at hand;   *)
(* allocate_resource, get_resource and destruct_resource follow the        *)
(* written specification of the wrapper.                                   *)
(*                                                                         *)
(* Assumptions on the collaborators outside the file:                      *)
(*  - enif_alloc returns a fresh block (exhaustion of the raw allocator is *)
(*    not modelled; exhaustion of the resource allocator is);              *)
(*  - a native entry point that returns a non-OK status has filled the     *)
(*    AdbcError it was given (message, vendor_code, sqlstate, and the      *)
(*    optional release callback);                                          *)
(*  - the host runs a wrapper's destructor at some point after its last    *)
(*    reference is gone, not necessarily inside enif_release_resource.     *)
(***************************************************************************)
EXTENDS Integers, Sequences, FiniteSets, TLC

VARIABLES loaded,   \* outcome of on_load: "unloaded", "ok" or "failed"
          type,     \* NifRes<T>::type is set (non-null), per handle kind
          res,      \* the wrappers ever allocated, in allocation order
          frees,    \* per enif_alloc'ed native handle: number of enif_free calls on it
          last,     \* the most recent NIF call: arguments, result, statements executed
          tick,     \* flips on every NIF call
          pc,       \* position of the scenario driver
          cur,      \* wrapper the scenario driver works on
          fix,      \* Database wrapper the scenario driver passes to Connection init
          results,  \* results of the scenario's calls on cur, in order
          ncycles,  \* scenario cycles completed
          phase,    \* per wrapper, the lifecycle states its calls have put it through
          thr,      \* the release calls of the race, statement by statement
          nerr,     \* the native error handed to the translator on its own
          xlat      \* what the translator made of nerr

vars == <<loaded, type, res, frees, last, tick, pc, cur, fix, results, ncycles,
          phase, thr, nerr, xlat>>
scen == <<pc, cur, fix, results, ncycles>>
other == <<thr, nerr, xlat>>

----------------------------------------------------------------------------
(* Bounds *)
MaxRes == 2      \* wrappers allocated in a run
MaxOpts == 2     \* set_option calls per scenario cycle
MaxCycles == 2   \* scenario cycles

----------------------------------------------------------------------------
(* Values *)
NULL == 0
Kinds == {"Database", "Connection"}
ADBC_STATUS_OK == "ADBC_STATUS_OK"
Statuses == {ADBC_STATUS_OK, "ADBC_STATUS_UNKNOWN"}

\* text as bytes: "bad option", "unknown", "42000", "HY000"
BadOption == <<98, 97, 100, 32, 111, 112, 116, 105, 111, 110>>
Unknown == <<117, 110, 107, 110, 111, 119, 110>>
S42000 == <<52, 50, 48, 48, 48>>
SHY000 == <<72, 89, 48, 48, 48>>
\* "cannot allocate"
CannotAllocate == <<99, 97, 110, 110, 111, 116, 32, 97, 108, 108, 111, 99, 97, 116, 101>>
\* a text as the NUL-terminated char array the library points message at
CString(text) == text \o <<0>>

\* struct AdbcError as a failing native call leaves it: message is a C string,
\* vendor_code an int32_t, sqlstate a char[5] without terminator
NativeErrors ==
  { [message |-> CString(BadOption), vendor_code |-> 42, sqlstate |-> S42000, release |-> TRUE],
    [message |-> CString(Unknown), vendor_code |-> -1, sqlstate |-> SHY000, release |-> FALSE] }
\* no native error was produced in the call
NoError == [message |-> CString(<<>>), vendor_code |-> 0, sqlstate |-> <<0, 0, 0, 0, 0>>,
            release |-> FALSE]
\* the AdbcError values a native call returning code can leave behind
Outcome(code) == IF code = ADBC_STATUS_OK THEN {NoError} ELSE NativeErrors

\* host terms passed as key / value
Terms == { [tag |-> "binary", data |-> "uri"],
           [tag |-> "integer", data |-> "7"] }
TextTerms == {t \in Terms : t.tag = "binary"}

\* host terms returned by a NIF
ok(ref) == [t |-> "ok", ref |-> ref, payload |-> <<>>]
error(payload) == [t |-> "error", ref |-> NULL, payload |-> payload]
enif_make_badarg == [t |-> "badarg", ref |-> NULL, payload |-> <<>>]
NoTerm == [t |-> "none", ref |-> NULL, payload |-> <<>>]

\* no release call is under way statement by statement
NoThreads == <<>>
\* no native error has been handed to the translator on its own
NoInput == [text |-> <<>>, vendor_code |-> 0, sqlstate |-> <<>>, release |-> FALSE]

\* statements recorded in last.ev
Ev(e, h, d) == [e |-> e, h |-> h, d |-> d]
NativeNames == {"AdbcDatabaseNew", "AdbcDatabaseSetOption", "AdbcDatabaseInit",
                "AdbcDatabaseRelease", "AdbcConnectionNew", "AdbcConnectionSetOption",
                "AdbcConnectionInit", "AdbcConnectionRelease"}
NewOps == {"adbc_database_new", "adbc_connection_new"}
SetOptionOps == {"adbc_database_set_option", "adbc_connection_set_option"}
InitOps == {"adbc_database_init", "adbc_connection_init"}
ReleaseOps == {"adbc_database_release", "adbc_connection_release"}

----------------------------------------------------------------------------
(* Helpers *)

\* erlang::nif::get(env, term, std::string &)
get(term) == term.tag = "binary"

\* strlen: the number of bytes before the first NUL
strlen(c_string) ==
  (CHOOSE i \in 1..Len(c_string) :
      c_string[i] = 0 /\ \A j \in 1..(i - 1) : c_string[j] # 0) - 1
\* erlang::nif::make_binary(env, c_string)
make_binary(c_string) == SubSeq(c_string, 1, strlen(c_string))
\* erlang::nif::make_binary(env, data, len)
make_binary_n(data, len) == SubSeq(data, 1, len)
\* enif_make_int: vendor_code is an int32_t and the argument a C int, so the
\* value is not narrowed on the way into the term
enif_make_int(i) == i

\* the error translator
nif_error_from_adbc_error_short_sqlstate(adbc_error) ==
  error(<<make_binary(adbc_error.message),
          enif_make_int(adbc_error.vendor_code),
          make_binary_n(adbc_error.sqlstate, 4)>>)
nif_error_from_adbc_error(adbc_error) ==
  error(<<make_binary(adbc_error.message),
          enif_make_int(adbc_error.vendor_code),
          make_binary_n(adbc_error.sqlstate, 5)>>)

\* the test every handler applies to the status of its native call
failed_inverted(code) == code = ADBC_STATUS_OK
failed(code) == code # ADBC_STATUS_OK

\* the statements of a failure path after the native call
error_path_release_first(adbc_error) ==
  (IF adbc_error.release THEN <<Ev("adbc_error.release", -1, -1)>> ELSE <<>>)
    \o <<Ev("nif_error_from_adbc_error", -1, -1)>>
error_path(adbc_error) ==
  <<Ev("nif_error_from_adbc_error", -1, -1)>>
    \o (IF adbc_error.release THEN <<Ev("adbc_error.release", -1, -1)>> ELSE <<>>)

\* NifRes<T>::allocate_resource succeeds
allocate_resource(kind, allocOk) == allocOk /\ type[kind]

\* NifRes<T>::get_resource: the wrapper a term refers to, or NULL
get_resource(kind, term) ==
  IF /\ term \in 1..Len(res)
     /\ type[kind]
     /\ res[term].kind = kind
     /\ res[term].val # NULL
  THEN term ELSE NULL

\* enif_free
enif_free(fr, h) == [fr EXCEPT ![h] = @ + 1]

\* references the caller holds
Held == {w \in 1..Len(res) : res[w].refc > 0}

Return(op, a0, a1, r, ev, code, err) ==
  /\ last' = [op |-> op, a0 |-> a0, a1 |-> a1, res |-> r, ev |-> ev,
              code |-> code, err |-> err]
  /\ tick' = 1 - tick

\* the lifecycle states of the written specification a wrapper has been
\* through, followed along the calls, the present one last; no handler reads it
Entered(states, state) ==
  IF states[Len(states)] = state THEN states ELSE Append(states, state)
Track ==
  phase' =
    IF Len(res') > Len(res)
    THEN Append(phase, IF last'.res.t = "ok" THEN <<"ALLOCATED">> ELSE <<"UNINITIALIZED">>)
    ELSE IF last'.res.t = "ok" /\ last'.op \in InitOps
    THEN [phase EXCEPT ![last'.a0] = Entered(@, "INITIALIZED")]
    ELSE IF last'.res.t = "ok" /\ last'.op \in ReleaseOps
    THEN [phase EXCEPT ![last'.a0] = Entered(@, "RELEASED")]
    ELSE phase
\* the lifecycle state wrapper w is in
State(w) == phase[w][Len(phase[w])]

----------------------------------------------------------------------------
(* Module load *)
on_load_ignoring_connection(rtDatabase, rtConnection) ==
  /\ loaded = "unloaded"
  /\ IF ~rtDatabase
     THEN loaded' = "failed" /\ UNCHANGED type
     ELSE loaded' = "ok" /\ type' = [Database |-> TRUE, Connection |-> rtConnection]
  /\ UNCHANGED <<res, frees, last, tick>>
on_load(rtDatabase, rtConnection) ==
  /\ loaded = "unloaded"
  /\ IF ~rtDatabase
     THEN loaded' = "failed" /\ UNCHANGED type
     ELSE IF ~rtConnection
          THEN loaded' = "failed" /\ type' = [type EXCEPT !["Database"] = TRUE]
          ELSE loaded' = "ok" /\ type' = [Database |-> TRUE, Connection |-> TRUE]
  /\ UNCHANGED <<res, frees, last, tick>>

----------------------------------------------------------------------------
(* Database *)

\* the wrapper adbc_database_set_option works on
database_set_option_resource_unchecked(ref) ==
  IF ref \in 1..Len(res) /\ res[ref].kind = "Database" THEN ref ELSE NULL
database_set_option_resource(ref) == get_resource("Database", ref)

\* the wrapper adbc_database_init works on
database_init_resource_unchecked(ref) ==
  IF ref \in 1..Len(res) /\ res[ref].kind = "Database" THEN ref ELSE NULL
database_init_resource(ref) == get_resource("Database", ref)

\* adbc_database_release: database->val = nullptr
database_release_clear_skipped(rs, database) == rs
database_release_clear(rs, database) == [rs EXCEPT ![database].val = NULL]

\* adbc_database_new, failure path: enif_release_resource(database)
database_new_unwind_missing(refc) == refc
database_new_unwind(refc) == refc - 1

adbc_database_new_reusing(allocOk, code, adbc_error) ==
  /\ loaded = "ok"
  /\ IF ~allocate_resource("Database", allocOk)
     THEN /\ Return("adbc_database_new", NULL, NULL, error(<<CannotAllocate>>),
                    <<>>, "none", NoError)
          /\ UNCHANGED <<res, frees>>
     ELSE LET released == {w \in 1..Len(res) : res[w].kind = "Database" /\ res[w].val = NULL}
              database == IF released # {} THEN CHOOSE w \in released : TRUE ELSE Len(res) + 1
              val == Len(frees) + 1
              call == Ev("AdbcDatabaseNew", val, -1)
              put(r, wrapper) == IF database \in 1..Len(r)
                                 THEN [r EXCEPT ![database] = wrapper]
                                 ELSE Append(r, wrapper)
          IN IF failed(code)
             THEN /\ res' = put(res, [kind |-> "Database", val |-> val,
                                      refc |-> database_new_unwind(1), dtor |-> 0])
                  /\ frees' = enif_free(Append(frees, 0), val)
                  /\ Return("adbc_database_new", NULL, NULL,
                            nif_error_from_adbc_error(adbc_error),
                            <<call, Ev("enif_free", val, -1),
                              Ev("enif_release_resource", database, -1)>>
                               \o error_path(adbc_error),
                            code, adbc_error)
             ELSE /\ res' = put(res, [kind |-> "Database", val |-> val, refc |-> 1, dtor |-> 0])
                  /\ frees' = Append(frees, 0)
                  /\ Return("adbc_database_new", NULL, NULL, ok(database),
                            <<call, Ev("enif_make_resource", database, -1),
                              Ev("enif_release_resource", database, -1)>>,
                            code, adbc_error)
adbc_database_new(allocOk, code, adbc_error) ==
  /\ loaded = "ok"
  /\ IF ~allocate_resource("Database", allocOk)
     THEN /\ Return("adbc_database_new", NULL, NULL, error(<<CannotAllocate>>),
                    <<>>, "none", NoError)
          /\ UNCHANGED <<res, frees>>
     ELSE LET database == Len(res) + 1
              val == Len(frees) + 1
              call == Ev("AdbcDatabaseNew", val, -1)
          IN IF failed(code)
             THEN /\ res' = Append(res, [kind |-> "Database", val |-> val,
                                       refc |-> database_new_unwind(1), dtor |-> 0])
                  /\ frees' = enif_free(Append(frees, 0), val)
                  /\ Return("adbc_database_new", NULL, NULL,
                            nif_error_from_adbc_error(adbc_error),
                            <<call, Ev("enif_free", val, -1),
                              Ev("enif_release_resource", database, -1)>>
                               \o error_path(adbc_error),
                            code, adbc_error)
             ELSE /\ res' = Append(res, [kind |-> "Database", val |-> val, refc |-> 1, dtor |-> 0])
                  /\ frees' = Append(frees, 0)
                  /\ Return("adbc_database_new", NULL, NULL, ok(database),
                            <<call, Ev("enif_make_resource", database, -1),
                              Ev("enif_release_resource", database, -1)>>,
                            code, adbc_error)

adbc_database_set_option_clearing(ref, key, value, code, adbc_error) ==
  /\ loaded = "ok"
  /\ UNCHANGED frees
  /\ LET database == database_set_option_resource(ref)
     IN IF database = NULL
        THEN /\ Return("adbc_database_set_option", ref, NULL, enif_make_badarg, <<>>, "none", NoError)
             /\ UNCHANGED res
        ELSE IF ~get(key)
        THEN /\ Return("adbc_database_set_option", ref, NULL, enif_make_badarg, <<>>, "none", NoError)
             /\ UNCHANGED res
        ELSE IF ~get(value)
        THEN /\ Return("adbc_database_set_option", ref, NULL, enif_make_badarg, <<>>, "none", NoError)
             /\ UNCHANGED res
        ELSE LET call == Ev("AdbcDatabaseSetOption", res[database].val, -1)
             IN IF failed(code)
                THEN /\ Return("adbc_database_set_option", ref, NULL,
                               nif_error_from_adbc_error(adbc_error),
                               <<call>> \o error_path(adbc_error), code, adbc_error)
                     /\ UNCHANGED res
                ELSE /\ Return("adbc_database_set_option", ref, NULL, ok(NULL), <<call>>,
                               code, adbc_error)
                     /\ res' = [res EXCEPT ![database].val = NULL]
adbc_database_set_option(ref, key, value, code, adbc_error) ==
  /\ loaded = "ok"
  /\ UNCHANGED <<res, frees>>
  /\ LET database == database_set_option_resource(ref)
     IN IF database = NULL
        THEN Return("adbc_database_set_option", ref, NULL, enif_make_badarg, <<>>, "none", NoError)
        ELSE IF ~get(key)
        THEN Return("adbc_database_set_option", ref, NULL, enif_make_badarg, <<>>, "none", NoError)
        ELSE IF ~get(value)
        THEN Return("adbc_database_set_option", ref, NULL, enif_make_badarg, <<>>, "none", NoError)
        ELSE LET call == Ev("AdbcDatabaseSetOption", res[database].val, -1)
             IN IF failed(code)
                THEN Return("adbc_database_set_option", ref, NULL,
                            nif_error_from_adbc_error(adbc_error),
                            <<call>> \o error_path(adbc_error), code, adbc_error)
                ELSE Return("adbc_database_set_option", ref, NULL, ok(NULL), <<call>>,
                            code, adbc_error)

adbc_database_init_unwinding(ref, code, adbc_error) ==
  /\ loaded = "ok"
  /\ UNCHANGED res
  /\ LET database == database_init_resource(ref)
     IN IF database = NULL
        THEN /\ Return("adbc_database_init", ref, NULL, enif_make_badarg, <<>>, "none", NoError)
             /\ UNCHANGED frees
        ELSE LET call == Ev("AdbcDatabaseInit", res[database].val, -1)
             IN IF failed(code)
                THEN /\ Return("adbc_database_init", ref, NULL,
                               nif_error_from_adbc_error(adbc_error),
                               <<call, Ev("enif_free", res[database].val, -1)>>
                                  \o error_path(adbc_error), code, adbc_error)
                     /\ frees' = enif_free(frees, res[database].val)
                ELSE /\ Return("adbc_database_init", ref, NULL, ok(NULL), <<call>>,
                               code, adbc_error)
                     /\ UNCHANGED frees
adbc_database_init(ref, code, adbc_error) ==
  /\ loaded = "ok"
  /\ UNCHANGED <<res, frees>>
  /\ LET database == database_init_resource(ref)
     IN IF database = NULL
        THEN Return("adbc_database_init", ref, NULL, enif_make_badarg, <<>>, "none", NoError)
        ELSE LET call == Ev("AdbcDatabaseInit", res[database].val, -1)
             IN IF failed(code)
                THEN Return("adbc_database_init", ref, NULL,
                            nif_error_from_adbc_error(adbc_error),
                            <<call>> \o error_path(adbc_error), code, adbc_error)
                ELSE Return("adbc_database_init", ref, NULL, ok(NULL), <<call>>,
                            code, adbc_error)

adbc_database_release(ref, code, adbc_error) ==
  /\ loaded = "ok"
  /\ LET database == get_resource("Database", ref)
     IN IF database = NULL
        THEN /\ Return("adbc_database_release", ref, NULL, enif_make_badarg, <<>>, "none", NoError)
             /\ UNCHANGED <<res, frees>>
        ELSE IF res[database].val = NULL
        THEN /\ Return("adbc_database_release", ref, NULL, enif_make_badarg, <<>>, "none", NoError)
             /\ UNCHANGED <<res, frees>>
        ELSE LET val == res[database].val
                 call == Ev("AdbcDatabaseRelease", val, -1)
             IN IF failed(code)
                THEN /\ Return("adbc_database_release", ref, NULL,
                               nif_error_from_adbc_error(adbc_error),
                               <<call>> \o error_path(adbc_error), code, adbc_error)
                     /\ UNCHANGED <<res, frees>>
                ELSE /\ frees' = enif_free(frees, val)
                     /\ res' = database_release_clear(res, database)
                     /\ Return("adbc_database_release", ref, NULL, ok(NULL),
                               <<call, Ev("enif_free", val, -1)>>, code, adbc_error)

----------------------------------------------------------------------------
(* Connection *)

\* the wrapper adbc_connection_set_option works on
connection_set_option_resource_unchecked(ref) ==
  IF ref \in 1..Len(res) /\ res[ref].kind = "Connection" THEN ref ELSE NULL
connection_set_option_resource(ref) == get_resource("Connection", ref)

\* the wrapper adbc_connection_init works on
connection_init_resource_unchecked(ref) ==
  IF ref \in 1..Len(res) /\ res[ref].kind = "Connection" THEN ref ELSE NULL
connection_init_resource(ref) == get_resource("Connection", ref)

\* the Database wrapper adbc_connection_init passes on
connection_init_db_unchecked(dbref) ==
  IF dbref \in 1..Len(res) /\ res[dbref].kind = "Database" THEN dbref ELSE NULL
connection_init_db(dbref) == get_resource("Database", dbref)

\* adbc_connection_release: connection->val = nullptr
connection_release_clear_skipped(rs, connection) == rs
connection_release_clear(rs, connection) == [rs EXCEPT ![connection].val = NULL]

\* adbc_connection_new, failure path: enif_release_resource(connection)
connection_new_unwind_missing(refc) == refc
connection_new_unwind(refc) == refc - 1

adbc_connection_new(allocOk, code, adbc_error) ==
  /\ loaded = "ok"
  /\ IF ~allocate_resource("Connection", allocOk)
     THEN /\ Return("adbc_connection_new", NULL, NULL, error(<<CannotAllocate>>),
                    <<>>, "none", NoError)
          /\ UNCHANGED <<res, frees>>
     ELSE LET connection == Len(res) + 1
              val == Len(frees) + 1
              call == Ev("AdbcConnectionNew", val, -1)
          IN IF failed(code)
             THEN /\ res' = Append(res, [kind |-> "Connection", val |-> val,
                                       refc |-> connection_new_unwind(1), dtor |-> 0])
                  /\ frees' = enif_free(Append(frees, 0), val)
                  /\ Return("adbc_connection_new", NULL, NULL,
                            nif_error_from_adbc_error(adbc_error),
                            <<call, Ev("enif_free", val, -1),
                              Ev("enif_release_resource", connection, -1)>>
                               \o error_path(adbc_error),
                            code, adbc_error)
             ELSE /\ res' = Append(res, [kind |-> "Connection", val |-> val, refc |-> 1, dtor |-> 0])
                  /\ frees' = Append(frees, 0)
                  /\ Return("adbc_connection_new", NULL, NULL, ok(connection),
                            <<call, Ev("enif_make_resource", connection, -1),
                              Ev("enif_release_resource", connection, -1)>>,
                            code, adbc_error)

adbc_connection_set_option(ref, key, value, code, adbc_error) ==
  /\ loaded = "ok"
  /\ UNCHANGED <<res, frees>>
  /\ LET connection == connection_set_option_resource(ref)
     IN IF connection = NULL
        THEN Return("adbc_connection_set_option", ref, NULL, enif_make_badarg, <<>>, "none", NoError)
        ELSE IF ~get(key)
        THEN Return("adbc_connection_set_option", ref, NULL, enif_make_badarg, <<>>, "none", NoError)
        ELSE IF ~get(value)
        THEN Return("adbc_connection_set_option", ref, NULL, enif_make_badarg, <<>>, "none", NoError)
        ELSE LET call == Ev("AdbcConnectionSetOption", res[connection].val, -1)
             IN IF failed(code)
                THEN Return("adbc_connection_set_option", ref, NULL,
                            nif_error_from_adbc_error(adbc_error),
                            <<call>> \o error_path(adbc_error), code, adbc_error)
                ELSE Return("adbc_connection_set_option", ref, NULL, ok(NULL), <<call>>,
                            code, adbc_error)

adbc_connection_init_keeping(ref, dbref, code, adbc_error) ==
  /\ loaded = "ok"
  /\ UNCHANGED frees
  /\ LET connection == connection_init_resource(ref)
         db == connection_init_db(dbref)
     IN IF connection = NULL
        THEN /\ Return("adbc_connection_init", ref, dbref, enif_make_badarg, <<>>, "none", NoError)
             /\ UNCHANGED res
        ELSE IF db = NULL
        THEN /\ Return("adbc_connection_init", ref, dbref, enif_make_badarg, <<>>, "none", NoError)
             /\ UNCHANGED res
        ELSE LET call == Ev("AdbcConnectionInit", res[connection].val, res[db].val)
             IN IF failed(code)
                THEN /\ Return("adbc_connection_init", ref, dbref,
                               nif_error_from_adbc_error(adbc_error),
                               <<call>> \o error_path(adbc_error), code, adbc_error)
                     /\ UNCHANGED res
                ELSE /\ Return("adbc_connection_init", ref, dbref, ok(NULL), <<call>>,
                               code, adbc_error)
                     /\ res' = [res EXCEPT ![db].refc = @ + 1]
adbc_connection_init(ref, dbref, code, adbc_error) ==
  /\ loaded = "ok"
  /\ UNCHANGED <<res, frees>>
  /\ LET connection == connection_init_resource(ref)
         db == connection_init_db(dbref)
     IN IF connection = NULL
        THEN Return("adbc_connection_init", ref, dbref, enif_make_badarg, <<>>, "none", NoError)
        ELSE IF db = NULL
        THEN Return("adbc_connection_init", ref, dbref, enif_make_badarg, <<>>, "none", NoError)
        ELSE LET call == Ev("AdbcConnectionInit", res[connection].val, res[db].val)
             IN IF failed(code)
                THEN Return("adbc_connection_init", ref, dbref,
                            nif_error_from_adbc_error(adbc_error),
                            <<call>> \o error_path(adbc_error), code, adbc_error)
                ELSE Return("adbc_connection_init", ref, dbref, ok(NULL), <<call>>,
                            code, adbc_error)

adbc_connection_release(ref, code, adbc_error) ==
  /\ loaded = "ok"
  /\ LET connection == get_resource("Connection", ref)
     IN IF connection = NULL
        THEN /\ Return("adbc_connection_release", ref, NULL, enif_make_badarg, <<>>, "none", NoError)
             /\ UNCHANGED <<res, frees>>
        ELSE IF res[connection].val = NULL
        THEN /\ Return("adbc_connection_release", ref, NULL, enif_make_badarg, <<>>, "none", NoError)
             /\ UNCHANGED <<res, frees>>
        ELSE LET val == res[connection].val
                 call == Ev("AdbcConnectionRelease", val, -1)
             IN IF failed(code)
                THEN /\ Return("adbc_connection_release", ref, NULL,
                               nif_error_from_adbc_error(adbc_error),
                               <<call>> \o error_path(adbc_error), code, adbc_error)
                     /\ UNCHANGED <<res, frees>>
                ELSE /\ frees' = enif_free(frees, val)
                     /\ res' = connection_release_clear(res, connection)
                     /\ Return("adbc_connection_release", ref, NULL, ok(NULL),
                               <<call, Ev("enif_free", val, -1)>>, code, adbc_error)

----------------------------------------------------------------------------
(* Host garbage collection *)

\* the caller's last reference to a wrapper goes away
Drop(w) ==
  /\ w \in Held
  /\ res' = [res EXCEPT ![w].refc = 0]
  /\ UNCHANGED <<loaded, type, frees, last, tick>>

\* NifRes<T>::destruct_resource, run by the host on an unreferenced wrapper
destruct_resource(w) ==
  /\ w \in 1..Len(res)
  /\ res[w].refc = 0
  /\ res[w].dtor = 0
  /\ res' = [res EXCEPT ![w].dtor = 1]
  /\ frees' = IF res[w].val # NULL THEN enif_free(frees, res[w].val) ELSE frees
  /\ UNCHANGED <<loaded, type, last, tick>>

\* the destructor on_load hands to enif_open_resource_type for a kind
destructor_none(kind) == "NULL"
destructor(kind) == "destruct_resource"

\* the host frees an unreferenced wrapper, running the destructor its
\* resource type was opened with
Collect(w) ==
  IF destructor(res[w].kind) = "destruct_resource"
  THEN destruct_resource(w)
  ELSE /\ res[w].refc = 0
       /\ res[w].dtor = 0
       /\ res' = [res EXCEPT ![w].dtor = 1]
       /\ UNCHANGED <<loaded, type, frees, last, tick>>

----------------------------------------------------------------------------
(* Any caller: every NIF, with any held reference and any native outcome *)
Init ==
  /\ loaded = "unloaded"
  /\ type = [Database |-> FALSE, Connection |-> FALSE]
  /\ res = <<>>
  /\ frees = <<>>
  /\ last = [op |-> "none", a0 |-> NULL, a1 |-> NULL, res |-> NoTerm, ev |-> <<>>,
             code |-> "none", err |-> NoError]
  /\ tick = 0
  /\ pc = "load"
  /\ cur = NULL
  /\ fix = NULL
  /\ results = <<>>
  /\ ncycles = 0
  /\ phase = <<>>
  /\ thr = NoThreads
  /\ nerr = NoInput
  /\ xlat = NoTerm

Load == (\E a, b \in BOOLEAN : on_load(a, b)) /\ UNCHANGED <<scen, phase, other>>
DatabaseNew ==
  /\ Len(res) < MaxRes
  /\ \E allocOk \in BOOLEAN, code \in Statuses : \E e \in Outcome(code) :
        adbc_database_new(allocOk, code, e)
  /\ UNCHANGED <<loaded, type>> /\ UNCHANGED scen /\ UNCHANGED <<phase, other>>
DatabaseSetOption ==
  /\ \E ref \in Held, k \in Terms, v \in Terms, code \in Statuses : \E e \in Outcome(code) :
        adbc_database_set_option(ref, k, v, code, e)
  /\ UNCHANGED <<loaded, type>> /\ UNCHANGED scen /\ UNCHANGED <<phase, other>>
DatabaseInit ==
  /\ \E ref \in Held, code \in Statuses : \E e \in Outcome(code) :
        adbc_database_init(ref, code, e)
  /\ UNCHANGED <<loaded, type>> /\ UNCHANGED scen /\ UNCHANGED <<phase, other>>
DatabaseRelease ==
  /\ \E ref \in Held, code \in Statuses : \E e \in Outcome(code) :
        adbc_database_release(ref, code, e)
  /\ UNCHANGED <<loaded, type>> /\ UNCHANGED scen /\ UNCHANGED <<phase, other>>
ConnectionNew ==
  /\ Len(res) < MaxRes
  /\ \E allocOk \in BOOLEAN, code \in Statuses : \E e \in Outcome(code) :
        adbc_connection_new(allocOk, code, e)
  /\ UNCHANGED <<loaded, type>> /\ UNCHANGED scen /\ UNCHANGED <<phase, other>>
ConnectionSetOption ==
  /\ \E ref \in Held, k \in Terms, v \in Terms, code \in Statuses : \E e \in Outcome(code) :
        adbc_connection_set_option(ref, k, v, code, e)
  /\ UNCHANGED <<loaded, type>> /\ UNCHANGED scen /\ UNCHANGED <<phase, other>>
ConnectionInit ==
  /\ \E ref \in Held, dbref \in Held, code \in Statuses : \E e \in Outcome(code) :
        adbc_connection_init(ref, dbref, code, e)
  /\ UNCHANGED <<loaded, type>> /\ UNCHANGED scen /\ UNCHANGED <<phase, other>>
ConnectionRelease ==
  /\ \E ref \in Held, code \in Statuses : \E e \in Outcome(code) :
        adbc_connection_release(ref, code, e)
  /\ UNCHANGED <<loaded, type>> /\ UNCHANGED scen /\ UNCHANGED <<phase, other>>
DropRef == (\E w \in Held : Drop(w)) /\ UNCHANGED <<scen, phase, other>>
Destruct == (\E w \in 1..Len(res) : Collect(w)) /\ UNCHANGED <<scen, phase, other>>

Next ==
  \/ Load
  \/ DatabaseNew
  \/ DatabaseSetOption
  \/ DatabaseInit
  \/ DatabaseRelease
  \/ ConnectionNew
  \/ ConnectionSetOption
  \/ ConnectionInit
  \/ ConnectionRelease
  \/ DropRef
  \/ Destruct

Spec == Init /\ [][Next]_vars

----------------------------------------------------------------------------
(* A caller running complete cycles, every native call succeeding:         *)
(* new, set_option k times, init, release, release again.  A Connection    *)
(* cycle first makes and initialises the Database it passes to init and    *)
(* releases it at the end.                                                 *)
Record == results' = Append(results, <<last'.op, last'.res.t>>)

CycleLoad ==
  /\ pc = "load"
  /\ on_load(TRUE, TRUE)
  /\ pc' = "new"
  /\ UNCHANGED <<cur, fix, results, ncycles>>
  /\ UNCHANGED <<phase, other>>

CycleDatabaseNew ==
  /\ pc = "new" /\ ncycles < MaxCycles
  /\ adbc_database_new(TRUE, ADBC_STATUS_OK, NoError)
  /\ cur' = last'.res.ref /\ fix' = NULL /\ results' = <<<<last'.op, last'.res.t>>>>
  /\ pc' = "opt"
  /\ UNCHANGED <<loaded, type, ncycles>>
  /\ Track
  /\ UNCHANGED other

CycleFixtureNew ==
  /\ pc = "new" /\ ncycles < MaxCycles
  /\ adbc_database_new(TRUE, ADBC_STATUS_OK, NoError)
  /\ fix' = last'.res.ref /\ cur' = NULL /\ results' = <<>>
  /\ pc' = "fixture"
  /\ UNCHANGED <<loaded, type, ncycles>>
  /\ Track
  /\ UNCHANGED other

CycleFixtureInit ==
  /\ pc = "fixture"
  /\ adbc_database_init(fix, ADBC_STATUS_OK, NoError)
  /\ pc' = "cnew"
  /\ UNCHANGED <<loaded, type, cur, fix, results, ncycles>>
  /\ Track
  /\ UNCHANGED other

CycleConnectionNew ==
  /\ pc = "cnew"
  /\ adbc_connection_new(TRUE, ADBC_STATUS_OK, NoError)
  /\ cur' = last'.res.ref /\ results' = <<<<last'.op, last'.res.t>>>>
  /\ pc' = "opt"
  /\ UNCHANGED <<loaded, type, fix, ncycles>>
  /\ Track
  /\ UNCHANGED other

CycleSetOption ==
  /\ pc = "opt" /\ Len(results) <= MaxOpts
  /\ \E k \in TextTerms, v \in TextTerms :
        IF fix = NULL
        THEN adbc_database_set_option(cur, k, v, ADBC_STATUS_OK, NoError)
        ELSE adbc_connection_set_option(cur, k, v, ADBC_STATUS_OK, NoError)
  /\ Record
  /\ UNCHANGED <<loaded, type, pc, cur, fix, ncycles>>
  /\ Track
  /\ UNCHANGED other

CycleInit ==
  /\ pc = "opt"
  /\ IF fix = NULL
     THEN adbc_database_init(cur, ADBC_STATUS_OK, NoError)
     ELSE adbc_connection_init(cur, fix, ADBC_STATUS_OK, NoError)
  /\ Record
  /\ pc' = "release"
  /\ UNCHANGED <<loaded, type, cur, fix, ncycles>>
  /\ Track
  /\ UNCHANGED other

CycleRelease ==
  /\ pc \in {"release", "again"}
  /\ IF fix = NULL
     THEN adbc_database_release(cur, ADBC_STATUS_OK, NoError)
     ELSE adbc_connection_release(cur, ADBC_STATUS_OK, NoError)
  /\ Record
  /\ pc' = IF pc = "release" THEN "again" ELSE IF fix = NULL THEN "end" ELSE "unfix"
  /\ UNCHANGED <<loaded, type, cur, fix, ncycles>>
  /\ Track
  /\ UNCHANGED other

CycleFixtureRelease ==
  /\ pc = "unfix"
  /\ adbc_database_release(fix, ADBC_STATUS_OK, NoError)
  /\ pc' = "end"
  /\ UNCHANGED <<loaded, type, cur, fix, results, ncycles>>
  /\ Track
  /\ UNCHANGED other

CycleEnd ==
  /\ pc = "end"
  /\ pc' = "new"
  /\ ncycles' = ncycles + 1
  /\ UNCHANGED <<loaded, type, res, frees, last, tick, cur, fix, results>>
  /\ UNCHANGED <<phase, other>>

\* the host collects wrappers the cycle is not using
CycleDrop ==
  /\ \E w \in Held \ {cur, fix} : Drop(w)
  /\ UNCHANGED scen
  /\ UNCHANGED <<phase, other>>

CycleDestruct ==
  /\ \E w \in 1..Len(res) : Collect(w)
  /\ UNCHANGED scen
  /\ UNCHANGED <<phase, other>>

NextCycle ==
  \/ CycleLoad
  \/ CycleDatabaseNew
  \/ CycleFixtureNew
  \/ CycleFixtureInit
  \/ CycleConnectionNew
  \/ CycleSetOption
  \/ CycleInit
  \/ CycleRelease
  \/ CycleFixtureRelease
  \/ CycleEnd
  \/ CycleDrop
  \/ CycleDestruct

SpecCycle == Init /\ [][NextCycle]_vars

----------------------------------------------------------------------------
(* Any caller keeping every reference it was given and passing text for   *)
(* keys and values, with the lifecycle states of the written               *)
(* specification followed along the calls.                                 *)
LifeError == CHOOSE e \in NativeErrors : e.release
LifeOutcome(code) == IF code = ADBC_STATUS_OK THEN NoError ELSE LifeError

LifeLoad == on_load(TRUE, TRUE) /\ UNCHANGED <<scen, phase, other>>
LifeDatabaseNew ==
  /\ Len(res) < MaxRes
  /\ \E code \in Statuses : adbc_database_new(TRUE, code, LifeOutcome(code))
  /\ Track
  /\ UNCHANGED <<loaded, type, scen, other>>
LifeDatabaseSetOption ==
  /\ \E ref \in Held, k \in TextTerms, v \in TextTerms, code \in Statuses :
        adbc_database_set_option(ref, k, v, code, LifeOutcome(code))
  /\ Track
  /\ UNCHANGED <<loaded, type, scen, other>>
LifeDatabaseInit ==
  /\ \E ref \in Held, code \in Statuses : adbc_database_init(ref, code, LifeOutcome(code))
  /\ Track
  /\ UNCHANGED <<loaded, type, scen, other>>
LifeDatabaseRelease ==
  /\ \E ref \in Held, code \in Statuses : adbc_database_release(ref, code, LifeOutcome(code))
  /\ Track
  /\ UNCHANGED <<loaded, type, scen, other>>
LifeConnectionNew ==
  /\ Len(res) < MaxRes
  /\ \E code \in Statuses : adbc_connection_new(TRUE, code, LifeOutcome(code))
  /\ Track
  /\ UNCHANGED <<loaded, type, scen, other>>
LifeConnectionSetOption ==
  /\ \E ref \in Held, k \in TextTerms, v \in TextTerms, code \in Statuses :
        adbc_connection_set_option(ref, k, v, code, LifeOutcome(code))
  /\ Track
  /\ UNCHANGED <<loaded, type, scen, other>>
LifeConnectionInit ==
  /\ \E ref \in Held, dbref \in Held, code \in Statuses :
        adbc_connection_init(ref, dbref, code, LifeOutcome(code))
  /\ Track
  /\ UNCHANGED <<loaded, type, scen, other>>
LifeConnectionRelease ==
  /\ \E ref \in Held, code \in Statuses : adbc_connection_release(ref, code, LifeOutcome(code))
  /\ Track
  /\ UNCHANGED <<loaded, type, scen, other>>

NextLife ==
  \/ LifeLoad
  \/ LifeDatabaseNew
  \/ LifeDatabaseSetOption
  \/ LifeDatabaseInit
  \/ LifeDatabaseRelease
  \/ LifeConnectionNew
  \/ LifeConnectionSetOption
  \/ LifeConnectionInit
  \/ LifeConnectionRelease

SpecLife == Init /\ [][NextLife]_vars

----------------------------------------------------------------------------
(* Properties *)

\* positions of the native library calls among the statements of a call
NativeCalls(ev) == {i \in DOMAIN ev : ev[i].e \in NativeNames}
\* the last call reached a native entry point and it reported failure
NativeFailed(call) == call.code \notin {"none", ADBC_STATUS_OK}
\* native handles the caller can reach through a reference it holds
HeldHandles == {res[w].val : w \in Held} \ {NULL}
\* wrappers the host has not destructed yet
Live == {w \in 1..Len(res) : res[w].dtor = 0}
\* native handle allocations not freed
Unfreed == {h \in 1..Len(frees) : frees[h] = 0}

\* C1: a release whose native release succeeds returns success, and a second
\* release made right after it on the same reference returns the
\* invalid-argument failure without calling the native release entry point.
C1_ReleaseTwice ==
  [][ /\ (tick' # tick /\ last'.op \in ReleaseOps /\ last'.code = ADBC_STATUS_OK)
           => last'.res = ok(NULL)
      /\ (/\ tick' # tick
          /\ last.op \in ReleaseOps /\ last.res.t = "ok"
          /\ last'.op = last.op /\ last'.a0 = last.a0)
           => (last'.res = enif_make_badarg /\ NativeCalls(last'.ev) = {}) ]_vars
\* a Connection and a Database have been released and the last call is a
\* refused second release of the Connection
C1_Witness ==
  /\ last.op = "adbc_connection_release" /\ last.res = enif_make_badarg
  /\ last.a0 \in Held /\ res[last.a0].kind = "Connection" /\ res[last.a0].val = NULL
  /\ \E d \in Held : res[d].kind = "Database" /\ res[d].val = NULL
  /\ Cardinality({h \in DOMAIN frees : frees[h] = 1}) = 2

C4_FreedAtMostOnce == \A h \in DOMAIN frees : frees[h] <= 1

\* C5: when the native construction call of new reports a non-OK status, new
\* returns the translated error and hands out no reference: the wrappers and
\* native handles the caller can reach are those it could reach before, the
\* wrapper made in the call is left without a reference and its native handle
\* has been freed; a wrapper without a reference never gets one again.
C5_FailedNewUnwinds ==
  [][ /\ (tick' # tick /\ last'.op \in NewOps /\ NativeFailed(last'))
           => /\ last'.res = nif_error_from_adbc_error(last'.err)
              /\ Held' = Held
              /\ HeldHandles' = HeldHandles
              /\ Len(res') = Len(res) + 1
              /\ res'[Len(res')].refc = 0
              /\ frees'[res'[Len(res')].val] >= 1
      /\ \A w \in 1..Len(res) : res[w].refc = 0 => res'[w].refc = 0 ]_vars
\* a Connection new has failed natively while the caller holds a Database
C5_Witness ==
  /\ last.op = "adbc_connection_new" /\ NativeFailed(last)
  /\ last.res.t = "error"
  /\ Held # {}
  /\ res[Len(res)].kind = "Connection" /\ res[Len(res)].refc = 0

\* C6: when the native call of an operation fails, the error's release
\* callback, if present, is invoked exactly once, after the native call and
\* after the translator has read the error; when the native call succeeds or
\* is not made, the callback is not invoked.
C6_ErrorReleasedOnce ==
  LET ev == last.ev
      rels == {i \in DOMAIN ev : ev[i].e = "adbc_error.release"}
      reads == {i \in DOMAIN ev : ev[i].e = "nif_error_from_adbc_error"}
  IN /\ (last.code = "none") <=> (NativeCalls(ev) = {})
     /\ Cardinality(NativeCalls(ev)) <= 1
     /\ IF NativeFailed(last)
        THEN /\ Cardinality(rels) = IF last.err.release THEN 1 ELSE 0
             /\ Cardinality(reads) = 1
             /\ \A i \in rels : \A j \in reads \cup NativeCalls(ev) : j < i
             /\ \A j \in reads : \A n \in NativeCalls(ev) : n < j
        ELSE rels = {}
\* a release has failed natively with an error that carries a callback
C6_Witness ==
  /\ last.op = "adbc_database_release" /\ NativeFailed(last)
  /\ last.err.release
  /\ Len(last.ev) = 3

\* C7: a release whose native release fails returns the translated error,
\* frees nothing and leaves every wrapper's pointer as it was; a release made
\* right after it on the same reference reaches the native release again
\* with the same handle and, if that call succeeds, returns success, frees
\* the handle and nulls the pointer.
C7_FailedReleaseKeepsHandle ==
  [][ /\ (tick' # tick /\ last'.op \in ReleaseOps /\ NativeFailed(last'))
           => /\ last'.res = nif_error_from_adbc_error(last'.err)
              /\ res' = res
              /\ frees' = frees
              /\ res[last'.a0].val # NULL
              /\ frees[res[last'.a0].val] = 0
      /\ (/\ tick' # tick
          /\ last.op \in ReleaseOps /\ NativeFailed(last)
          /\ last'.op = last.op /\ last'.a0 = last.a0)
           => /\ NativeCalls(last'.ev) = {1}
              /\ last'.ev[1].h = res[last.a0].val
              /\ last'.code = ADBC_STATUS_OK
                   => /\ last'.res = ok(NULL)
                      /\ res'[last.a0].val = NULL
                      /\ frees'[res[last.a0].val] = 1 ]_vars
\* a Connection release has failed natively and the handle is still in place
C7_Witness ==
  /\ last.op = "adbc_connection_release" /\ NativeFailed(last)
  /\ last.a0 \in Held /\ res[last.a0].val # NULL
  /\ frees[res[last.a0].val] = 0

C9_HappyPath ==
  LET n == Len(results)
      calls == IF pc \in {"unfix", "end"} \/ (pc = "new" /\ ncycles > 0) THEN n - 1 ELSE n
  IN /\ \A i \in 1..calls : results[i][2] = "ok"
     /\ calls < n => results[n][2] = "badarg"
     /\ n >= 1 => results[1][1] \in NewOps
     /\ pc \in {"release", "again"} => n >= 2
     /\ calls < n =>
          /\ n >= 4
          /\ results[n][1] \in ReleaseOps
          /\ results[n - 1][1] \in ReleaseOps
          /\ results[n - 2][1] \in InitOps
          /\ \A i \in 2..(n - 3) : results[i][1] \in SetOptionOps
\* a Connection cycle with at least one set_option has run to its end
C9_Witness ==
  /\ pc = "end" /\ fix # NULL
  /\ Len(results) >= 5
  /\ results[1][1] = "adbc_connection_new"
  /\ results[Len(results)] = <<"adbc_connection_release", "badarg">>

\* C10: the unfreed native handle allocations are exactly the non-null
\* pointers held by the wrappers that have not been destructed.
C10_NoLeak ==
  Unfreed = {res[w].val : w \in Live} \ {NULL}

----------------------------------------------------------------------------
(* The error translator on its own, over bounded sets of native errors.    *)
Messages == {BadOption, Unknown, CannotAllocate, <<>>}
VendorCodes == {42, -1, 0, 2147483647, -2147483647}
\* the third holds a zero byte: sqlstate is a char[5], not a C string
SqlStates == {S42000, SHY000, <<52, 50, 0, 48, 48>>}
TranslateInputs ==
  [text : Messages, vendor_code : VendorCodes, sqlstate : SqlStates, release : BOOLEAN]

InitTranslate ==
  /\ loaded = "unloaded"
  /\ type = [Database |-> FALSE, Connection |-> FALSE]
  /\ res = <<>>
  /\ frees = <<>>
  /\ last = [op |-> "none", a0 |-> NULL, a1 |-> NULL, res |-> NoTerm, ev |-> <<>>,
             code |-> "none", err |-> NoError]
  /\ tick = 0
  /\ pc = "load"
  /\ cur = NULL
  /\ fix = NULL
  /\ results = <<>>
  /\ ncycles = 0
  /\ phase = <<>>
  /\ thr = NoThreads
  /\ nerr \in TranslateInputs
  /\ xlat = NoTerm

Translate ==
  /\ xlat = NoTerm
  /\ xlat' = nif_error_from_adbc_error([message |-> CString(nerr.text),
                                        vendor_code |-> nerr.vendor_code,
                                        sqlstate |-> nerr.sqlstate,
                                        release |-> nerr.release])
  /\ UNCHANGED <<loaded, type, res, frees, last, tick, phase, thr, nerr>>
  /\ UNCHANGED scen

NextTranslate == Translate

SpecTranslate == InitTranslate /\ [][NextTranslate]_vars

----------------------------------------------------------------------------
(* Release calls running at the same time on one wrapper, statement by     *)
(* statement: no lock is taken anywhere in either release handler.         *)
MaxRacers == 2
Racers == 1..MaxRacers
\* the wrapper all the racing calls were given
Shared == 1
\* val has not been read at that statement yet
Unread == -1

ReleaseNative(kind) ==
  IF kind = "Database" THEN "AdbcDatabaseRelease" ELSE "AdbcConnectionRelease"

\* the test between get_resource and the native call
release_guard_absent(val) == FALSE
release_guard(val) == val = NULL

InitRace ==
  /\ loaded = "ok"
  /\ type = [Database |-> TRUE, Connection |-> TRUE]
  /\ \E kind \in Kinds, val \in {NULL, 1} :
       /\ res = <<[kind |-> kind, val |-> val, refc |-> 1, dtor |-> 0]>>
       /\ frees = <<IF val = NULL THEN 1 ELSE 0>>
       /\ phase = <<IF val = NULL THEN <<"ALLOCATED", "RELEASED">> ELSE <<"ALLOCATED">>>>
  /\ last = [op |-> "none", a0 |-> NULL, a1 |-> NULL, res |-> NoTerm, ev |-> <<>>,
             code |-> "none", err |-> NoError]
  /\ tick = 0
  /\ pc = "load"
  /\ cur = NULL
  /\ fix = NULL
  /\ results = <<>>
  /\ ncycles = 0
  /\ thr = [t \in Racers |-> [pc |-> "get_resource", seen |-> Unread, guarded |-> Unread,
                              ret |-> NoTerm, ev |-> <<>>]]
  /\ nerr = NoInput
  /\ xlat = NoTerm

RaceFrame == UNCHANGED <<loaded, type, last, tick, phase, nerr, xlat>> /\ UNCHANGED scen

\* res_type::get_resource(env, argv[0], error)
RaceGetResource ==
  \E t \in Racers :
    /\ thr[t].pc = "get_resource"
    /\ LET w == get_resource(res[Shared].kind, Shared)
       IN thr' = [thr EXCEPT ![t] =
                    IF w = NULL
                    THEN [@ EXCEPT !.pc = "done", !.seen = res[Shared].val,
                                   !.ret = enif_make_badarg]
                    ELSE [@ EXCEPT !.pc = "guard", !.seen = res[Shared].val]]
    /\ UNCHANGED <<res, frees>>
    /\ RaceFrame

\* if (database->val == nullptr) return enif_make_badarg(env);
RaceGuard ==
  \E t \in Racers :
    /\ thr[t].pc = "guard"
    /\ thr' = [thr EXCEPT ![t] =
                 IF release_guard(res[Shared].val)
                 THEN [@ EXCEPT !.pc = "done", !.guarded = res[Shared].val,
                                !.ret = enif_make_badarg]
                 ELSE [@ EXCEPT !.pc = "native", !.guarded = res[Shared].val]]
    /\ UNCHANGED <<res, frees>>
    /\ RaceFrame

\* the native release on database->val as it is now, and the failure path
RaceNative ==
  \E t \in Racers : \E code \in Statuses : \E adbc_error \in Outcome(code) :
    /\ thr[t].pc = "native"
    /\ LET call == Ev(ReleaseNative(res[Shared].kind), res[Shared].val, -1)
       IN thr' = [thr EXCEPT ![t] =
                    IF failed(code)
                    THEN [@ EXCEPT !.pc = "done",
                                   !.ret = nif_error_from_adbc_error(adbc_error),
                                   !.ev = @ \o <<call>> \o error_path(adbc_error)]
                    ELSE [@ EXCEPT !.pc = "free", !.ev = Append(@, call)]]
    /\ UNCHANGED <<res, frees>>
    /\ RaceFrame

\* enif_free(database->val) on the pointer as it is now
RaceFree ==
  \E t \in Racers :
    /\ thr[t].pc = "free"
    /\ LET val == res[Shared].val
       IN /\ frees' = IF val = NULL THEN frees ELSE enif_free(frees, val)
          /\ thr' = [thr EXCEPT ![t] = [@ EXCEPT !.pc = "clear",
                                                 !.ev = Append(@, Ev("enif_free", val, -1))]]
    /\ UNCHANGED res
    /\ RaceFrame

\* database->val = nullptr; return ok
RaceClear ==
  \E t \in Racers :
    /\ thr[t].pc = "clear"
    /\ res' = IF res[Shared].kind = "Database"
              THEN database_release_clear(res, Shared)
              ELSE connection_release_clear(res, Shared)
    /\ thr' = [thr EXCEPT ![t] = [@ EXCEPT !.pc = "done", !.ret = ok(NULL)]]
    /\ UNCHANGED frees
    /\ RaceFrame

NextRace ==
  \/ RaceGetResource
  \/ RaceGuard
  \/ RaceNative
  \/ RaceFree
  \/ RaceClear

SpecRace == InitRace /\ [][NextRace]_vars

----------------------------------------------------------------------------
(* Any caller of new, init and release letting go of references, and a     *)
(* host that does not put off the collection of an unreferenced wrapper    *)
(* for ever.                                                               *)
CollectOf(w) == w \in 1..Len(res) /\ Collect(w) /\ UNCHANGED <<scen, phase, other>>

NextCollect ==
  \/ Load
  \/ DatabaseNew
  \/ DatabaseInit
  \/ DatabaseRelease
  \/ ConnectionNew
  \/ ConnectionInit
  \/ ConnectionRelease
  \/ DropRef
  \/ Destruct

SpecCollect ==
  Init /\ [][NextCollect]_vars /\ \A w \in 1..MaxRes : WF_vars(CollectOf(w))

\* C11: the translated payload is the error tuple of exactly three fields,
\* the message, the vendor code and the SQL state in that order, each equal
\* to the native error's value and the SQL state 5 bytes long.
C11_TranslatedPayload ==
  xlat # NoTerm =>
    /\ xlat.t = "error"
    /\ Len(xlat.payload) = 3
    /\ xlat.payload = <<nerr.text, nerr.vendor_code, nerr.sqlstate>>
    /\ Len(xlat.payload[3]) = 5
C11_Witness ==
  /\ xlat # NoTerm
  /\ xlat.payload = <<BadOption, 42, S42000>>

RaceReleases(t, h) ==
  {i \in 1..Len(thr[t].ev) :
     thr[t].ev[i].e \in {"AdbcDatabaseRelease", "AdbcConnectionRelease"} /\ thr[t].ev[i].h = h}
RaceFrees(t, h) ==
  {i \in 1..Len(thr[t].ev) : thr[t].ev[i].e = "enif_free" /\ thr[t].ev[i].h = h}

\* C13: of release calls racing on one wrapper, a call that finds the
\* pointer null, at get_resource or at the guard, returns the
\* invalid-argument failure having made no native call and no free, and if
\* all of them found it null nothing was freed; only a call that read a
\* non-null pointer at the guard goes on to the native release. The guard
\* is the only thing between the calls: the witness is the interleaving
\* where two calls each release and free the same handle.
C13_RacingReleases ==
  /\ \A t \in Racers :
       thr[t].seen = NULL \/ thr[t].guarded = NULL =>
         /\ thr[t].pc = "done"
         /\ thr[t].ret = enif_make_badarg
         /\ thr[t].ev = <<>>
  /\ (\A t \in Racers : thr[t].seen = NULL) => frees = <<1>> /\ res[Shared].val = NULL
  /\ \A t \in Racers :
       thr[t].ev # <<>> => thr[t].seen # NULL /\ thr[t].guarded \notin {NULL, Unread}
C13_Witness ==
  \E t \in Racers : \E u \in Racers \ {t} :
    /\ thr[t].pc = "done" /\ thr[u].pc = "done"
    /\ thr[t].ret = ok(NULL) /\ thr[u].ret = ok(NULL)
    /\ RaceReleases(t, 1) # {} /\ RaceReleases(u, 1) # {}
    /\ RaceFrees(t, 1) # {} /\ RaceFrees(u, 1) # {}
    /\ frees[1] = 2
\* all the racing calls found the pointer null
C13_WitnessNull ==
  \A t \in Racers : thr[t].pc = "done" /\ thr[t].seen = NULL

\* C14: a wrapper whose pointer is null keeps a null pointer through every
\* step, whatever the operation and whatever reference it is given; a new
\* call leaves every existing wrapper as it was and the reference it
\* returns is to a wrapper that did not exist before the call.
C14_ReleasedIsTerminal ==
  [][/\ Len(res') >= Len(res)
     /\ \A w \in 1..Len(res) :
          /\ res'[w].kind = res[w].kind
          /\ res[w].val = NULL => res'[w].val = NULL
     /\ (tick' # tick /\ last'.op \in NewOps) =>
          /\ \A w \in 1..Len(res) : res'[w] = res[w]
          /\ last'.res.t = "ok" =>
               /\ last'.res.ref \notin 1..Len(res)
               /\ last'.res.ref = Len(res')
               /\ res'[last'.res.ref].val \notin {res[w].val : w \in 1..Len(res)}]_vars
\* a new call has succeeded after the release of the first wrapper
C14_Witness ==
  /\ Len(res) = 2
  /\ res[1].val = NULL
  /\ frees[1] = 1
  /\ last.op \in NewOps
  /\ last.res = ok(2)
  /\ res[2].val # NULL

\* C15: a release on a wrapper of its kind whose pointer is non-null finds
\* the wrapper ALLOCATED or INITIALIZED and in either state calls the native
\* release on its handle; if that call succeeds the release returns success
\* and the pointer is null afterwards, else the wrapper stays as it was. A
\* successful init changes no field of any wrapper, so nothing in a wrapper
\* tells whether init was called.
C15_ReleaseFromBothStates ==
  [][/\ (/\ tick' # tick /\ last'.op \in ReleaseOps
         /\ last'.a0 \in 1..Len(res)
         /\ res[last'.a0].val # NULL
         /\ res[last'.a0].kind =
              (IF last'.op = "adbc_database_release" THEN "Database" ELSE "Connection"))
          => /\ State(last'.a0) \in {"ALLOCATED", "INITIALIZED"}
             /\ \E i \in NativeCalls(last'.ev) :
                  /\ last'.ev[i].e \in {"AdbcDatabaseRelease", "AdbcConnectionRelease"}
                  /\ last'.ev[i].h = res[last'.a0].val
             /\ last'.code = ADBC_STATUS_OK =>
                  /\ last'.res = ok(NULL)
                  /\ res'[last'.a0].val = NULL
                  /\ phase'[last'.a0] = Append(phase[last'.a0], "RELEASED")
             /\ last'.code # ADBC_STATUS_OK => res' = res /\ phase' = phase
     /\ (tick' # tick /\ last'.op \in InitOps) => res' = res]_vars
\* one wrapper was released without ever being initialised, another after a
\* successful init, the second by the last call
C15_Witness ==
  /\ \E w \in 1..Len(res) : phase[w] = <<"ALLOCATED", "RELEASED">> /\ res[w].val = NULL
  /\ last.op \in ReleaseOps /\ last.res = ok(NULL)
  /\ last.a0 \in 1..Len(res)
  /\ phase[last.a0] = <<"ALLOCATED", "INITIALIZED", "RELEASED">>
  /\ res[last.a0].val = NULL

\* C16: a set_option that returns success leaves every wrapper, every free
\* count and every lifecycle state as they were, and the call made next on
\* the same reference (set_option again, init of a Database, or release) is
\* not refused as an invalid argument; a set_option repeated with the native
\* call succeeding again returns success again.
C16_SetOptionKeepsState ==
  [][/\ (tick' # tick /\ last'.op \in SetOptionOps /\ last'.res.t = "ok")
          => res' = res /\ frees' = frees /\ phase' = phase
     /\ (/\ tick' # tick
         /\ last.op \in SetOptionOps /\ last.res.t = "ok"
         /\ last'.a0 = last.a0
         /\ last'.op \in IF last.op = "adbc_database_set_option"
                         THEN {"adbc_database_set_option", "adbc_database_init",
                               "adbc_database_release"}
                         ELSE {"adbc_connection_set_option", "adbc_connection_release"})
          => /\ last'.res # enif_make_badarg
             /\ NativeCalls(last'.ev) # {}
             /\ last'.code = ADBC_STATUS_OK => last'.res = ok(NULL)]_vars
\* set_option has just succeeded on a wrapper that was initialised before
C16_Witness ==
  /\ last.op \in SetOptionOps /\ last.res = ok(NULL)
  /\ last.a0 \in 1..Len(res)
  /\ res[last.a0].val # NULL
  /\ State(last.a0) = "INITIALIZED"

\* C17: a Connection init, whatever it returns, leaves every wrapper (its
\* pointer and its reference count) and every free count as they were. A
\* release changes no wrapper but the one it is given, and a release made
\* right after a Connection init on the Database or on the Connection of
\* that init calls the native release with that wrapper's handle alone and,
\* the native call succeeding, returns success whatever the other wrapper's
\* pointer is.
C17_InitKeepsNoBackReference ==
  [][/\ (tick' # tick /\ last'.op = "adbc_connection_init")
          => res' = res /\ frees' = frees
     /\ (tick' # tick /\ last'.op \in ReleaseOps)
          => \A w \in 1..Len(res) : w # last'.a0 => res'[w] = res[w]
     /\ (/\ tick' # tick
         /\ last.op = "adbc_connection_init" /\ last.res.t \in {"ok", "error"}
         /\ \/ last'.op = "adbc_database_release" /\ last'.a0 = last.a1
            \/ last'.op = "adbc_connection_release" /\ last'.a0 = last.a0)
          => /\ \E i \in NativeCalls(last'.ev) :
                  last'.ev[i].h = res[last'.a0].val /\ last'.ev[i].d = -1
             /\ last'.code = ADBC_STATUS_OK =>
                  last'.res = ok(NULL) /\ res'[last'.a0].val = NULL]_vars
\* the Database has been released by the last call while the Connection
\* initialised with it still has its handle
C17_Witness ==
  /\ last.op = "adbc_database_release" /\ last.res = ok(NULL)
  /\ res[last.a0].val = NULL
  /\ \E c \in 1..Len(res) :
       /\ res[c].kind = "Connection"
       /\ res[c].val # NULL
       /\ phase[c] = <<"ALLOCATED", "INITIALIZED">>

\* C19: a set_option or an init that returns a failure leaves every wrapper
\* and every free count as they were and has freed nothing; if the failure
\* is the invalid-argument one no native entry point was called, and if it
\* is an error tuple it is the translation of the error of a native call
\* that failed.
C19_FailureKeepsState ==
  [][(tick' # tick /\ last'.op \in SetOptionOps \cup InitOps /\ last'.res.t # "ok")
       => /\ res' = res
          /\ frees' = frees
          /\ \A i \in DOMAIN last'.ev : last'.ev[i].e # "enif_free"
          /\ last'.res.t \in {"badarg", "error"}
          /\ last'.res.t = "badarg" => NativeCalls(last'.ev) = {}
          /\ last'.res.t = "error" =>
               /\ NativeFailed(last')
               /\ last'.res = nif_error_from_adbc_error(last'.err)]_vars
\* a Connection init has failed in the native library; both wrappers keep
\* their handles and nothing has been freed
C19_Witness ==
  /\ last.op = "adbc_connection_init" /\ last.res.t = "error"
  /\ res[last.a0].val # NULL /\ frees[res[last.a0].val] = 0
  /\ res[last.a1].val # NULL /\ frees[res[last.a1].val] = 0
\* a set_option on a valid Database wrapper was refused for a key or a value
\* that is not text
C19_WitnessNotText ==
  /\ last.op = "adbc_database_set_option" /\ last.res = enif_make_badarg
  /\ last.a0 \in 1..Len(res)
  /\ res[last.a0].kind = "Database" /\ res[last.a0].val # NULL

\* C18: a wrapper that is unreferenced with its pointer non-null and its
\* handle not freed (new succeeded on it, and no release did) is in the end
\* destructed with its handle freed once; a handle not freed belongs to a
\* wrapper not destructed; a wrapper is destructed at most once, and once
\* it is, neither the wrapper nor the free count of its handle changes.
C18_DestructorFreesHandle ==
  /\ [](\A w \in 1..Len(res) :
          /\ res[w].dtor \in {0, 1}
          /\ (res[w].val # NULL /\ frees[res[w].val] = 0) => res[w].dtor = 0)
  /\ [][\A w \in 1..Len(res) :
          res[w].dtor = 1 =>
            /\ res'[w] = res[w]
            /\ res[w].val # NULL => frees'[res[w].val] = frees[res[w].val]]_vars
  /\ \A w \in 1..MaxRes :
       (/\ w \in 1..Len(res)
        /\ res[w].refc = 0 /\ res[w].dtor = 0
        /\ res[w].val # NULL /\ frees[res[w].val] = 0)
         ~> (/\ w \in 1..Len(res)
             /\ res[w].dtor = 1
             /\ res[w].val # NULL /\ frees[res[w].val] = 1)
\* the last call was a release that failed in the native library; its
\* wrapper has since been destructed and the destructor freed the handle
C18_Witness ==
  /\ last.op \in ReleaseOps /\ NativeFailed(last)
  /\ last.a0 \in 1..Len(res)
  /\ res[last.a0].refc = 0 /\ res[last.a0].dtor = 1
  /\ res[last.a0].val # NULL /\ frees[res[last.a0].val] = 1

====
